---- MODULE Spec2Model ----
(***************************************************************************)
(* Model of the weather ingestion process (iot_weather_backend_firebase.py) *)
(* and of the dashboard read path (iot_dashboard_firebase.py).              *)
(*                                                                          *)
(* Time is counted in whole minutes.  JSON numbers are tagged values so     *)
(* that null, NaN and the infinities can be told apart from finite numbers. *)
(***************************************************************************)
EXTENDS Integers, Sequences, FiniteSets, TLC

(***************************************************************************)
(* Bounds of the model.                                                     *)
(***************************************************************************)
\* total number of sampling cycles the schedulers may start
MaxCycles == 2
\* minute at which the model starts (two minutes before the top of an hour)
StartClock == 58
\* minutes the clock may advance while the ingestion process is observed
MaxMinutes == 3
\* minutes the clock may advance while the dashboard is observed
MaxElapsed == 5
\* sampling cycles that run while the dashboard is observed
ReadCycles == 1
\* number of dashboard script runs
MaxRuns == 3

(***************************************************************************)
(* Program constants.                                                       *)
(***************************************************************************)
\* requests status code compared against in fetch_and_store
STATUS_OK == 200
\* a status the weather API answers when it fails
STATUS_ERR == 500
\* schedule.every(1).minutes
INTERVAL == 1
\* st.cache_data(ttl=300): 300 s = 5 min
TTL == 5
\* now.replace(minute=0, ...): minutes in an hour
HOUR == 60

\* the process started from the command line, and the child process in
\* which app.run(debug=True) executes the script again (the reloader)
Procs == {"main", "reloader"}

(***************************************************************************)
(* JSON values and Python arithmetic on them.                               *)
(***************************************************************************)
Num(n) == [tag |-> "num", val |-> n]
Null == [tag |-> "null"]
NaN == [tag |-> "nan"]
Inf == [tag |-> "inf"]
NegInf == [tag |-> "ninf"]

IsFinite(x) == x.tag = "num"

\* a subtraction that lets None through
SubNeverRaises(a, b) == FALSE

\* a - b raises TypeError when an operand is None
SubRaises(a, b) == a.tag = "null" \/ b.tag = "null"

\* a - b on floats
Sub(a, b) ==
    CASE a.tag = "nan" \/ b.tag = "nan" -> NaN
      [] a.tag = "num" /\ b.tag = "num" -> Num(a.val - b.val)
      [] a.tag = "inf" /\ b.tag = "inf" -> NaN
      [] a.tag = "ninf" /\ b.tag = "ninf" -> NaN
      [] a.tag = "inf" \/ b.tag = "ninf" -> Inf
      [] OTHER -> NegInf

\* d ** 2 on floats
Square(d) ==
    CASE d.tag = "num" -> Num(d.val * d.val)
      [] d.tag = "nan" -> NaN
      [] OTHER -> Inf

(***************************************************************************)
(* Time formatting.                                                         *)
(***************************************************************************)
\* now.strftime("%Y-%m-%d %H:%M:%S")
StrfTimestamp(now) ==
    [tag |-> "str", sep |-> " ", hour |-> now \div HOUR, minute |-> now % HOUR]

\* the hour nearest to now, not the hour now lies in
StrfNearestHour(now) ==
    [tag |-> "str", sep |-> "T", hour |-> (now + HOUR \div 2) \div HOUR, minute |-> 0]

\* now.replace(minute=0, second=0, microsecond=0).strftime("%Y-%m-%dT%H:00")
StrfHour(now) == [tag |-> "str", sep |-> "T", hour |-> now \div HOUR, minute |-> 0]

\* an hourly time string as the weather API writes it
ApiHour(h) == [tag |-> "str", sep |-> "T", hour |-> h, minute |-> 0]

(***************************************************************************)
(* Replies of the weather API.                                              *)
(***************************************************************************)
JsonBody(v) == [kind |-> "json", value |-> v]
TextBody == [kind |-> "text"]
Reply(s, b) == [status |-> s, body |-> b]
NoReply == [status |-> 0, body |-> [kind |-> "none"]]

Hourly(t, temp, wind) ==
    [hourly |-> [time |-> t, temperature_2m |-> temp, wind_speed_10m |-> wind]]

FirstHour == StartClock \div HOUR

ForecastTimes == <<ApiHour(FirstHour), ApiHour(FirstHour + 1)>>

\* a forecast covering the two hours the model runs through
ForecastGood == Hourly(ForecastTimes, <<Num(18), Num(20)>>, <<Num(9), Num(7)>>)
\* a forecast that has not yet published the current hours
ForecastLate ==
    Hourly(<<ApiHour(FirstHour + 2)>>, <<Num(21)>>, <<Num(6)>>)
\* a forecast whose temperature array is shorter than its time array
ForecastShort == Hourly(ForecastTimes, <<Num(18)>>, <<Num(9), Num(7)>>)
\* a forecast with null temperatures
ForecastNull == Hourly(ForecastTimes, <<Null, Null>>, <<Num(9), Num(7)>>)
\* a JSON object without the hourly key
ErrorObject == [error |-> TRUE]

ForecastReplies ==
    { Reply(STATUS_OK, JsonBody(v)) :
        v \in {ForecastGood, ForecastLate, ForecastShort, ForecastNull, ErrorObject} }
    \cup { Reply(STATUS_OK, TextBody), Reply(STATUS_ERR, TextBody) }

Current(temp, wind) == [current |-> [temperature_2m |-> temp, wind_speed_10m |-> wind]]

CurrentGood == Current(Num(19), Num(11))
CurrentNull == Current(Null, Num(11))
CurrentNonFinite == Current(NaN, Inf)

CurrentReplies ==
    { Reply(STATUS_OK, JsonBody(v)) :
        v \in {CurrentGood, CurrentNull, CurrentNonFinite, ErrorObject} }
    \cup { Reply(STATUS_OK, TextBody), Reply(STATUS_ERR, TextBody) }

\* what requests.get(url) can do: answer, raise a transport exception, or
\* never return (no timeout argument is passed)
GetOutcomes == {"reply", "raise", "hang"}

(***************************************************************************)
(* fetch_and_store, lines 32-68: the steps between the two requests and the *)
(* push.                                                                    *)
(***************************************************************************)
HasKey(d, k) == k \in DOMAIN d

\* x in seq
Contains(seq, x) == \E i \in 1..Len(seq) : seq[i] = x

\* seq.index(x) raises ValueError when x is not in seq
IndexRaises(seq, x) == ~Contains(seq, x)

\* seq.index(x): the first index holding x
IndexOf(seq, x) ==
    IF Contains(seq, x)
    THEN CHOOSE i \in 1..Len(seq) : seq[i] = x /\ \A j \in 1..(i-1) : seq[j] # x
    ELSE 0

\* lines 35-41
StatusFailed(fres, cres) == fres.status # STATUS_OK \/ cres.status # STATUS_OK

\* lines 43-44: res.json() raises when the body is not JSON
JsonRaises(fres, cres) == fres.body.kind # "json" \/ cres.body.kind # "json"

\* line 54: forecast_json['hourly']['time'] raises KeyError
TimesRaises(fj) == ~HasKey(fj, "hourly") \/ ~HasKey(fj.hourly, "time")

\* a membership test that always succeeds
BucketAlwaysFound(fj, hour_str) == TRUE

\* line 56
BucketFound(fj, hour_str) == Contains(fj.hourly.time, hour_str)

\* lines 60-62: a missing key or a short parallel array raises
ForecastLookupRaises(fj, i) ==
    \/ ~HasKey(fj.hourly, "temperature_2m")
    \/ i > Len(fj.hourly.temperature_2m)
    \/ ~HasKey(fj.hourly, "wind_speed_10m")
    \/ i > Len(fj.hourly.wind_speed_10m)

\* lines 64-65
CurrentLookupRaises(cj) ==
    \/ ~HasKey(cj, "current")
    \/ ~HasKey(cj.current, "temperature_2m")
    \/ ~HasKey(cj.current, "wind_speed_10m")

\* the absolute error in place of the squared one
AbsoluteError(actual, forecast) ==
    LET d == Sub(actual, forecast) IN
    IF d.tag = "num" THEN Num(IF d.val < 0 THEN 0 - d.val ELSE d.val) ELSE Square(d)

\* lines 67-68
compute(actual, forecast) == Square(Sub(actual, forecast))

\* lines 72-80: the dictionary handed to ref.push
WeatherRecord(timestamp, tf, ta, wf, wa) ==
    [timestamp |-> timestamp,
     temp_forecast |-> tf, temp_actual |-> ta,
     wind_forecast |-> wf, wind_actual |-> wa,
     temp_mse |-> compute(ta, tf), wind_mse |-> compute(wa, wf)]

NoRecord == [timestamp |-> StrfTimestamp(0)]

\* The result of lines 32-68 for the two replies at instant now:
\*   "skipped_fetch"  a status was not 200 (return at 37 or 41)
\*   "crashed"        res.json() raised outside the try block
\*   "skipped_align"  the hour bucket is not in the forecast (return at 58)
\*   "failed"         an exception inside the try block (line 87)
\*   "push"           the record is assembled and ref.push is called next
Process(fres, cres, now) ==
    IF StatusFailed(fres, cres) THEN [kind |-> "skipped_fetch", rec |-> NoRecord]
    ELSE IF JsonRaises(fres, cres) THEN [kind |-> "crashed", rec |-> NoRecord]
    ELSE
      LET fj == fres.body.value
          cj == cres.body.value
          hour_str == StrfHour(now)
      IN
      IF TimesRaises(fj) THEN [kind |-> "failed", rec |-> NoRecord]
      ELSE IF ~BucketFound(fj, hour_str) THEN [kind |-> "skipped_align", rec |-> NoRecord]
      ELSE
        LET hour_index == IndexOf(fj.hourly.time, hour_str) IN
        IF \/ IndexRaises(fj.hourly.time, hour_str)
           \/ ForecastLookupRaises(fj, hour_index)
           \/ CurrentLookupRaises(cj)
        THEN [kind |-> "failed", rec |-> NoRecord]
        ELSE
          LET temp_forecast == fj.hourly.temperature_2m[hour_index]
              wind_forecast == fj.hourly.wind_speed_10m[hour_index]
              temp_actual == cj.current.temperature_2m
              wind_actual == cj.current.wind_speed_10m
          IN
          IF SubRaises(temp_actual, temp_forecast) \/ SubRaises(wind_actual, wind_forecast)
          THEN [kind |-> "failed", rec |-> NoRecord]
          ELSE [kind |-> "push",
                rec |-> WeatherRecord(StrfTimestamp(now), temp_forecast, temp_actual,
                                      wind_forecast, wind_actual)]

\* the replies decode to a forecast series that lacks the hour bucket of the
\* sampling instant now
LacksBucket(fres, cres, now) ==
    /\ ~StatusFailed(fres, cres)
    /\ ~JsonRaises(fres, cres)
    /\ ~TimesRaises(fres.body.value)
    /\ ~Contains(fres.body.value.hourly.time, StrfHour(now))

(***************************************************************************)
(* The dashboard: process_data.                                             *)
(***************************************************************************)
\* line 185
required_cols == {"timestamp", "temp_actual", "temp_forecast", "wind_actual", "wind_forecast"}

\* pd.DataFrame(list(data.values())).columns: the union of the records' keys
Columns(rows) == UNION { DOMAIN rows[i] : i \in 1..Len(rows) }

\* a cell of the frame: a key the record lacks is filled with NaN
Cell(r, c) == IF c \in DOMAIN r THEN r[c] ELSE NaN

\* line 186
missing_cols(rows) == required_cols \ Columns(rows)

\* lines 193-200: the display names of the columns
Rename(c) ==
    CASE c = "temp_actual" -> "Actual Temp (C)"
      [] c = "temp_forecast" -> "Forecast Temp (C)"
      [] c = "temp_mse" -> "Temp MSE"
      [] c = "wind_actual" -> "Actual Wind (km/h)"
      [] c = "wind_forecast" -> "Forecast Wind (km/h)"
      [] c = "wind_mse" -> "Wind MSE"
      [] OTHER -> c

NaT == [tag |-> "nat"]

\* a timestamp cell that pd.to_datetime(..., format="%Y-%m-%d %H:%M:%S")
\* cannot convert: a string in another format
ParseRaises(cell) == cell.tag = "str" /\ cell.sep # " "

\* a string pd.to_datetime reads as a missing value whatever the format:
\* "NaT", "nan", ""
NatString == [tag |-> "natstr"]

\* pd.to_datetime of one cell: NaN and the strings read as missing become NaT
ParseTimestamp(cell) ==
    IF cell.tag = "str"
    THEN [tag |-> "time", val |-> cell.hour * HOUR + cell.minute]
    ELSE NaT

\* the frame after the renaming and the conversion of the timestamp column
Frame(rows) ==
    LET cols == Columns(rows)
        Source(d) == CHOOSE c \in cols : Rename(c) = d
    IN [i \in 1..Len(rows) |->
          [d \in {Rename(c) : c \in cols} |->
             IF d = "timestamp" THEN ParseTimestamp(Cell(rows[i], "timestamp"))
             ELSE Cell(rows[i], Source(d))]]

\* a comes before b in sort_values("timestamp", ascending=False): later
\* times first, NaT last
Before(a, b) ==
    /\ a.timestamp.tag = "time"
    /\ b.timestamp.tag = "nat" \/ a.timestamp.val > b.timestamp.val

\* an insertion that drops a row whose values, the timestamp aside, are
\* already in the frame
RECURSIVE InsertDistinct(_, _)
InsertDistinct(r, sorted) ==
    LET Values(row) == [c \in DOMAIN row \ {"timestamp"} |-> row[c]] IN
    IF sorted = <<>> THEN <<r>>
    ELSE IF Values(r) = Values(Head(sorted)) THEN sorted
    ELSE IF Before(r, Head(sorted)) THEN <<r>> \o sorted
    ELSE <<Head(sorted)>> \o InsertDistinct(r, Tail(sorted))

\* insertion of row r into a sorted frame, after the rows it does not precede
RECURSIVE Insert(_, _)
Insert(r, sorted) ==
    IF sorted = <<>> THEN <<r>>
    ELSE IF Before(r, Head(sorted)) THEN <<r>> \o sorted
    ELSE <<Head(sorted)>> \o Insert(r, Tail(sorted))

\* df.sort_values("timestamp", ascending=False); rows with equal timestamps
\* keep the order of the frame
RECURSIVE sort_values(_)
sort_values(frame) ==
    IF frame = <<>> THEN <<>>
    ELSE LET n == Len(frame) IN Insert(frame[n], sort_values(SubSeq(frame, 1, n - 1)))

\* the value fetch_firebase_data returns: None, or the collection
NoneValue == [isNone |-> TRUE, rows |-> <<>>]
Data(rows) == [isNone |-> FALSE, rows |-> rows]

\* process_data(data): the frame it returns and whether it reported an error
process_data(data) ==
    IF data.isNone \/ data.rows = <<>> THEN [df |-> <<>>, error |-> FALSE]
    ELSE IF missing_cols(data.rows) # {} THEN [df |-> <<>>, error |-> TRUE]
    ELSE IF \E i \in 1..Len(data.rows) : ParseRaises(Cell(data.rows[i], "timestamp"))
         THEN [df |-> <<>>, error |-> TRUE]
    ELSE [df |-> sort_values(Frame(data.rows)), error |-> FALSE]

\* ref.get() on the collection: None when it is empty
RefGet(s) == IF s = <<>> THEN NoneValue ELSE Data(s)

\* a cache that never serves its entry
CacheNeverHit(c, now) == FALSE

\* a cache without a ttl
CacheNeverExpires(c, now) == c.present

\* st.cache_data(ttl=300): the entry is served while it is younger than the ttl
CacheHit(c, now) == c.present /\ now - c.at < TTL

\* the entry: the value fetch_firebase_data returned, the minute of the call,
\* and whether the None it returned came from the except branch (line 98)
NoCache == [present |-> FALSE, value |-> NoneValue, at |-> 0, failed |-> FALSE]

\* the values init_firebase returns, and the absence of a st.cache_resource entry
InitReturns == {"True", "False", "None"}
NoEntry == "absent"

\* where init_firebase finds the service account: st.secrets (line 16),
\* firebase_config.json (line 34), or nowhere (line 39)
Configs == {"secrets", "file", "none"}

\* lines 10-67, init_firebase() behind st.cache_resource: the value the call
\* returns and whether firebase_admin holds an app after it. entry is the
\* cached return value, appsNow is firebase_admin._apps being non-empty, and
\* accepted is whether Certificate and initialize_app take the configuration.
init_firebase(entry, appsNow, cfg, accepted) ==
    IF entry # NoEntry THEN [ret |-> entry, apps |-> appsNow]
    ELSE IF appsNow THEN [ret |-> "None", apps |-> TRUE]
    ELSE IF cfg = "none" THEN [ret |-> "False", apps |-> FALSE]
    ELSE IF accepted THEN [ret |-> "True", apps |-> TRUE]
    ELSE [ret |-> "False", apps |-> FALSE]

\* line 234: if not firebase_initialized
Falsy(ret) == ret # "True"

(***************************************************************************)
(* State.                                                                   *)
(***************************************************************************)
VARIABLES
    clock,          \* wall clock, minutes
    store,          \* the "weather" collection, in push order
    cycles,         \* sampling cycles started so far
    pc,             \* per process: where its scheduler thread is
    nextRun,        \* per process: next_run of the scheduled job
    forecast_res,   \* per process: forecast_res of the running cycle
    pending,        \* per process: the record about to be pushed
    outcome,        \* per process: how its latest cycle ended
    prevOutcome,    \* per process: how the cycle before the latest ended
    lacked,         \* per process: the latest cycle's forecast lacked the bucket
    fetchError,     \* per process: what failed in the fetches of the latest cycle
    pushCalls,      \* per process: calls of ref.push in the latest cycle
    appended,       \* per process: records the latest cycle added to the store
    cache,          \* the st.cache_data entry of fetch_firebase_data
    df,             \* the frame the latest script run got from process_data
    reported,       \* whether process_data reported an error in that run
    tested,         \* what test_firebase_connection showed in that run
    config,         \* where the service account of the dashboard is
    apps,           \* firebase_admin._apps of the dashboard process is non-empty
    initialized,    \* the st.cache_resource entry of init_firebase
    stopped,        \* the latest script run ended in st.stop() at line 235
    runs,           \* script runs of the dashboard that reached line 240
    lastRun         \* the latest script run compared with the one before it:
                    \*   at        the minute of the run
                    \*   len       the length of the collection at the run
                    \*   cleared   the run followed st.cache_data.clear()
                    \*   nearRun   it came less than TTL after the run before
                    \*   nearRead  it came less than TTL after the store read
                    \*             that served the run before
                    \*   grew      the collection grew between the two runs
                    \*   same      both runs got the same frame
                    \*   hit       the cache served the run

backend == <<cycles, pc, nextRun, forecast_res, pending, outcome, prevOutcome,
             lacked, fetchError, pushCalls, appended>>
dashboard == <<cache, df, reported, tested, runs, lastRun>>
firebase == <<config, apps, initialized, stopped>>

vars == <<clock, store, backend, dashboard, firebase>>

InCycle(p) == pc[p] \in {"FetchingForecast", "FetchingCurrent", "Persisting"}

BackendInit ==
    /\ cycles = 0
    /\ pc = [p \in Procs |-> IF p = "main" THEN "Idle" ELSE "NotStarted"]
    /\ nextRun = [p \in Procs |-> StartClock + INTERVAL]
    /\ forecast_res = [p \in Procs |-> NoReply]
    /\ pending = [p \in Procs |-> NoRecord]
    /\ outcome = [p \in Procs |-> "none"]
    /\ prevOutcome = [p \in Procs |-> "none"]
    /\ lacked = [p \in Procs |-> FALSE]
    /\ fetchError = [p \in Procs |-> "none"]
    /\ pushCalls = [p \in Procs |-> 0]
    /\ appended = [p \in Procs |-> 0]

\* the dashboard before its first script run
DashboardInit ==
    /\ cache = NoCache
    /\ df = <<>>
    /\ reported = FALSE
    /\ tested = "none"
    /\ runs = 0
    /\ lastRun = [at |-> 0, len |-> 0, cleared |-> FALSE, nearRun |-> FALSE,
                  nearRead |-> FALSE, grew |-> FALSE, same |-> FALSE, hit |-> FALSE]

\* the dashboard process before init_firebase was ever called
FirebaseInit ==
    /\ apps = FALSE
    /\ initialized = NoEntry
    /\ stopped = FALSE

\* the ingestion process right after its entry point started the scheduler
\* thread, with an empty collection
Init ==
    /\ clock = StartClock
    /\ store = <<>>
    /\ BackendInit
    /\ DashboardInit
    /\ config = "file"
    /\ FirebaseInit

\* the wall clock advances by a minute, up to limit minutes after the start
Elapse(limit) ==
    /\ clock < StartClock + limit
    /\ clock' = clock + 1
    /\ UNCHANGED <<store, backend, dashboard, firebase>>

Minute == Elapse(MaxMinutes)

\* app.run(debug=True) in the main process: the reloader executes the
\* script again in a child process, which starts a scheduler thread of its own
AppRun ==
    /\ pc["reloader"] = "NotStarted"
    /\ pc' = [pc EXCEPT !["reloader"] = "Idle"]
    /\ nextRun' = [nextRun EXCEPT !["reloader"] = clock + INTERVAL]
    /\ UNCHANGED <<clock, store, cycles, forecast_res, pending, outcome, prevOutcome,
                   lacked, fetchError, pushCalls, appended, dashboard, firebase>>

\* the cycle of process p ends with outcome o; the job is scheduled again
EndCycle(p, o) ==
    /\ pc' = [pc EXCEPT ![p] = "Idle"]
    /\ outcome' = [outcome EXCEPT ![p] = o]
    /\ nextRun' = [nextRun EXCEPT ![p] = clock + INTERVAL]
    /\ forecast_res' = [forecast_res EXCEPT ![p] = NoReply]
    /\ pending' = [pending EXCEPT ![p] = NoRecord]

\* an exception leaves fetch_and_store, run_pending and the while loop:
\* the scheduler thread of process p ends
Crash(p) ==
    /\ pc' = [pc EXCEPT ![p] = "Dead"]
    /\ outcome' = [outcome EXCEPT ![p] = "crashed"]
    /\ forecast_res' = [forecast_res EXCEPT ![p] = NoReply]
    /\ pending' = [pending EXCEPT ![p] = NoRecord]
    /\ UNCHANGED nextRun

\* requests.get never returns: the scheduler thread of process p stays in it
Hang(p) ==
    /\ pc' = [pc EXCEPT ![p] = "Blocked"]
    /\ UNCHANGED <<outcome, forecast_res, pending, nextRun>>

\* run_pending finds the job due and calls fetch_and_store
Tick(p) ==
    /\ pc[p] = "Idle"
    /\ clock >= nextRun[p]
    /\ cycles < MaxCycles
    /\ cycles' = cycles + 1
    /\ pc' = [pc EXCEPT ![p] = "FetchingForecast"]
    /\ outcome' = [outcome EXCEPT ![p] = "running"]
    /\ prevOutcome' = [prevOutcome EXCEPT ![p] = outcome[p]]
    /\ lacked' = [lacked EXCEPT ![p] = FALSE]
    /\ fetchError' = [fetchError EXCEPT ![p] = "none"]
    /\ pushCalls' = [pushCalls EXCEPT ![p] = 0]
    /\ appended' = [appended EXCEPT ![p] = 0]
    /\ UNCHANGED <<clock, store, nextRun, forecast_res, pending, dashboard, firebase>>

\* line 29: forecast_res = requests.get(FORECAST_URL)
FetchForecast(p) ==
    /\ pc[p] = "FetchingForecast"
    /\ \E how \in GetOutcomes :
        \/ /\ how = "reply"
           /\ \E r \in ForecastReplies :
                /\ forecast_res' = [forecast_res EXCEPT ![p] = r]
                /\ fetchError' = [fetchError EXCEPT ![p] =
                                    IF r.status # STATUS_OK THEN "status" ELSE "none"]
           /\ pc' = [pc EXCEPT ![p] = "FetchingCurrent"]
           /\ UNCHANGED <<outcome, pending, nextRun>>
        \/ /\ how = "raise"
           /\ fetchError' = [fetchError EXCEPT ![p] = "transport"]
           /\ Crash(p)
        \/ /\ how = "hang"
           /\ Hang(p)
           /\ UNCHANGED fetchError
    /\ UNCHANGED <<clock, store, cycles, prevOutcome, lacked, pushCalls, appended,
                   dashboard, firebase>>

\* lines 30-68: current_res = requests.get(CURRENT_URL), then the status
\* checks, the decoding, the alignment and the squared errors
FetchCurrent(p) ==
    /\ pc[p] = "FetchingCurrent"
    /\ \E how \in GetOutcomes :
        \/ /\ how = "reply"
           /\ \E r \in CurrentReplies :
                LET res == Process(forecast_res[p], r, clock) IN
                /\ lacked' = [lacked EXCEPT ![p] = LacksBucket(forecast_res[p], r, clock)]
                /\ fetchError' = [fetchError EXCEPT ![p] =
                                    IF fetchError[p] = "none" /\ r.status # STATUS_OK
                                    THEN "status" ELSE fetchError[p]]
                /\ CASE res.kind = "push" ->
                          /\ pc' = [pc EXCEPT ![p] = "Persisting"]
                          /\ pending' = [pending EXCEPT ![p] = res.rec]
                          /\ forecast_res' = [forecast_res EXCEPT ![p] = NoReply]
                          /\ UNCHANGED <<outcome, nextRun>>
                     [] res.kind = "crashed" -> Crash(p)
                     [] OTHER -> EndCycle(p, res.kind)
        \/ /\ how = "raise"
           /\ fetchError' = [fetchError EXCEPT ![p] = "transport"]
           /\ Crash(p)
           /\ UNCHANGED lacked
        \/ /\ how = "hang"
           /\ Hang(p)
           /\ UNCHANGED <<fetchError, lacked>>
    /\ UNCHANGED <<clock, store, cycles, prevOutcome, pushCalls, appended, dashboard, firebase>>

\* ref.push(value): the store takes the record or raises
PushAccepts(rec) == {TRUE, FALSE}

\* a write that replaces the collection by the new record
SetReplaces(s, value) == <<value>>

\* lines 71-72: ref.push(value) adds the record under a new key and leaves
\* the records already there as they are
Push(s, value) == Append(s, value)

\* a handler too narrow to catch what ref.push raises
CatchesNoStoreError == FALSE

\* line 87: except Exception catches what ref.push raises
CatchesStoreError == TRUE

\* lines 71-88: db.reference("weather").push({...}); a store exception is
\* caught at line 87
Persist(p) ==
    /\ pc[p] = "Persisting"
    /\ pushCalls' = [pushCalls EXCEPT ![p] = @ + 1]
    /\ \E ok \in PushAccepts(pending[p]) :
        IF ok
        THEN /\ store' = Push(store, pending[p])
             /\ appended' = [appended EXCEPT ![p] = @ + 1]
             /\ EndCycle(p, "success")
        ELSE /\ UNCHANGED <<store, appended>>
             /\ IF CatchesStoreError THEN EndCycle(p, "failed_store") ELSE Crash(p)
    /\ UNCHANGED <<clock, cycles, prevOutcome, lacked, fetchError, dashboard, firebase>>

(***************************************************************************)
(* The dashboard script.                                                    *)
(***************************************************************************)
\* main(), lines 240-245: df = process_data(fetch_firebase_data()).
\* fetch_firebase_data runs only when the cache does not serve the call; a
\* read that raises returns None, and the cache keeps what was returned.
\* shown is what test_firebase_connection displays in this run.
Script(c, cleared, shown) ==
    /\ runs < MaxRuns
    /\ runs' = runs + 1
    /\ tested' = shown
    /\ \E readOk \in BOOLEAN :
        LET hit == CacheHit(c, clock) IN
        /\ hit => readOk
        /\ \E value \in {IF hit THEN c.value
                         ELSE IF readOk THEN RefGet(store) ELSE NoneValue} :
           \E result \in {process_data(value)} :
            /\ cache' = IF hit THEN c
                        ELSE [present |-> TRUE, value |-> value, at |-> clock,
                              failed |-> ~readOk]
            /\ df' = result.df
            /\ reported' = result.error
            /\ lastRun' = [at |-> clock,
                           len |-> Len(store),
                           cleared |-> cleared,
                           grew |-> (runs > 0 /\ Len(store) > lastRun.len),
                           nearRun |-> (runs > 0 /\ clock - lastRun.at < TTL),
                           nearRead |-> (runs > 0 /\ clock - cache.at < TTL),
                           same |-> (runs > 0 /\ result.df = df),
                           hit |-> hit]
    /\ UNCHANGED <<clock, store, backend>>

\* main(), lines 231-235: firebase_initialized = init_firebase(); a falsy
\* value ends the run in st.stop(), any other lets it go on to line 240
Main(c, cleared, shown) ==
    \E r \in { init_firebase(initialized, apps, config, accepted) : accepted \in BOOLEAN } :
        /\ initialized' = r.ret
        /\ apps' = r.apps
        /\ stopped' = Falsy(r.ret)
        /\ UNCHANGED config
        /\ IF Falsy(r.ret)
           THEN UNCHANGED <<clock, store, backend, dashboard>>
           ELSE Script(c, cleared, shown)

\* the page is opened or reloaded: the script runs
RunScript == Main(cache, FALSE, "none")

\* lines 370-372, the Refresh Data button, drawn only below a non-empty
\* frame: st.cache_data.clear() and st.rerun()
Refresh ==
    /\ runs > 0
    /\ ~stopped
    /\ df # <<>>
    /\ Main(NoCache, TRUE, "none")

\* lines 101-133, test_firebase_connection(): it reads the collection with
\* ref.get() and shows whether the read worked and whether it found records
Diagnosis(s, readOk) ==
    IF ~readOk THEN "failed" ELSE IF s = <<>> THEN "empty" ELSE "connected"

\* lines 265-266 and 375-376, the Test Firebase buttons: the click runs the
\* script again, and the run calls test_firebase_connection()
TestFirebase ==
    /\ runs > 0
    /\ ~stopped
    /\ \E readOk \in BOOLEAN : Main(cache, FALSE, Diagnosis(store, readOk))

\* the Clear cache entry of the Streamlit menu: both caches lose their
\* entries, and firebase_admin keeps the app it has
ClearCache ==
    /\ initialized # NoEntry
    /\ initialized' = NoEntry
    /\ cache' = NoCache
    /\ UNCHANGED <<clock, store, backend, df, reported, tested, runs, lastRun,
                   config, apps, stopped>>

Next ==
    \/ Minute
    \/ AppRun
    \/ \E p \in Procs : Tick(p)
    \/ \E p \in Procs : FetchForecast(p)
    \/ \E p \in Procs : FetchCurrent(p)
    \/ \E p \in Procs : Persist(p)

\* the ingestion process as its entry point starts it
Spec == Init /\ [][Next]_vars

\* the same, with every scheduler thread running on: a thread that can take
\* its next step eventually takes it
FairSpec ==
    /\ Spec
    /\ \A p \in Procs :
         /\ WF_vars(FetchForecast(p))
         /\ WF_vars(FetchCurrent(p))
         /\ WF_vars(Persist(p))

(***************************************************************************)
(* The dashboard beside the ingestion process, over a collection that       *)
(* already holds records, well-formed or not.                               *)
(***************************************************************************)
\* a complete record sampled at minute t
StoredGood(t) == WeatherRecord(StrfTimestamp(t), Num(18), Num(19), Num(9), Num(11))

Without(r, k) == [c \in DOMAIN r \ {k} |-> r[c]]

Older == StoredGood(StartClock - 2)
Newer == StoredGood(StartClock - 1)
NoWindActual == Without(Newer, "wind_actual")
BadTimestamp == [Newer EXCEPT !.timestamp = StrfHour(StartClock)]
NatTimestamp == [Newer EXCEPT !.timestamp = NatString]

\* the collections the dashboard model starts from
InitialStores ==
    { <<>>,
      <<Older, Newer>>,
      <<Older, NoWindActual>>,
      <<Older, BadTimestamp>>,
      <<Older, NatTimestamp>> }

ReadInit ==
    /\ clock = StartClock
    /\ store \in InitialStores
    /\ BackendInit
    /\ DashboardInit
    /\ config = "file"
    /\ FirebaseInit

\* a whole run of fetch_and_store (lines 26-88) that returns: it appends the
\* record it assembled when the store takes it, and nothing otherwise
SampleAndStore ==
    /\ cycles < ReadCycles
    /\ cycles' = cycles + 1
    /\ \E res \in { Process(f, c, clock) : f \in ForecastReplies, c \in CurrentReplies } :
        \E ok \in PushAccepts(res.rec) :
            store' = IF res.kind = "push" /\ ok THEN Push(store, res.rec) ELSE store
    /\ UNCHANGED <<clock, pc, nextRun, forecast_res, pending, outcome, prevOutcome,
                   lacked, fetchError, pushCalls, appended, dashboard, firebase>>

AdvanceClock == Elapse(MaxElapsed)

ReadNext ==
    \/ AdvanceClock
    \/ RunScript
    \/ Refresh
    \/ SampleAndStore

ReadSpec == ReadInit /\ [][ReadNext]_vars

(***************************************************************************)
(* Every operation that touches the collection, side by side: the sampling  *)
(* cycle, the script runs, the Refresh Data button and the connection test. *)
(***************************************************************************)
\* the collection is empty or holds two complete records
StoreInit ==
    /\ clock = StartClock
    /\ store \in {<<>>, <<Older, Newer>>}
    /\ BackendInit
    /\ DashboardInit
    /\ config = "file"
    /\ FirebaseInit

StoreNext ==
    \/ Minute
    \/ RunScript
    \/ Refresh
    \/ TestFirebase
    \/ SampleAndStore

StoreSpec == StoreInit /\ [][StoreNext]_vars

(***************************************************************************)
(* The start of the dashboard script: init_firebase and the two caches.     *)
(***************************************************************************)
StartInit ==
    /\ clock = StartClock
    /\ store \in InitialStores
    /\ BackendInit
    /\ DashboardInit
    /\ config \in Configs
    /\ FirebaseInit

StartNext ==
    \/ RunScript
    \/ ClearCache
    \/ AdvanceClock

StartSpec == StartInit /\ [][StartNext]_vars

(***************************************************************************)
(* Properties of the ingestion process (Spec, FairSpec).                    *)
(***************************************************************************)
record_fields ==
    {"timestamp", "temp_forecast", "temp_actual", "wind_forecast", "wind_actual",
     "temp_mse", "wind_mse"}

numeric_fields == record_fields \ {"timestamp"}

\* the record has a timestamp in the storage format and a number in each of
\* the six numeric fields
Complete(r) ==
    /\ DOMAIN r = record_fields
    /\ r.timestamp.tag = "str" /\ r.timestamp.sep = " "
    /\ \A k \in numeric_fields : r[k].tag \in {"num", "nan", "inf", "ninf"}

Ended(p) == outcome[p] \in {"skipped_fetch", "skipped_align", "failed", "failed_store",
                            "crashed", "success"}

\* the job of process p is still scheduled and due within one interval
Scheduled(p) == pc[p] = "Idle" /\ nextRun[p] <= clock + INTERVAL

\* C1: every record in the store has a timestamp and all six numeric fields,
\* and a cycle that ended in any way but success appended no record.
RecordsComplete ==
    /\ \A i \in 1..Len(store) : Complete(store[i])
    /\ \A p \in Procs : Ended(p) /\ outcome[p] # "success" => appended[p] = 0

\* C1: a cycle failed after its fetches, beside a store that holds a record
RecordsCompleteWitness ==
    \E p \in Procs : outcome[p] \in {"failed", "failed_store"} /\ Len(store) > 0

\* C2: no error in a cycle ends a scheduler thread.
SchedulerSurvivesErrors == \A p \in Procs : pc[p] # "Dead"

\* C3: a fetch that fails, by status or by a transport exception, ends the
\* cycle as skipped: nothing is appended and no exception leaves the cycle.
FetchFailureSkipsCycle ==
    \A p \in Procs :
        fetchError[p] # "none" =>
            /\ outcome[p] \in {"running", "skipped_fetch"}
            /\ pc[p] # "Dead"
            /\ appended[p] = 0

\* C4: a cycle whose forecast lacks the hour bucket of the sampling instant is
\* skipped: ref.push is not called, nothing is appended, and the job stays
\* scheduled for the next tick.
MissingBucketSkips ==
    \A p \in Procs :
        lacked[p] =>
            /\ outcome[p] = "skipped_align"
            /\ pushCalls[p] = 0
            /\ appended[p] = 0
            /\ Scheduled(p)

\* C4: the cycle after a skipped one ran and appended
MissingBucketSkipsWitness ==
    \E p \in Procs : prevOutcome[p] = "skipped_align" /\ outcome[p] = "success"

\* C5: at most one sampling cycle is under way at any time.
CyclesNeverOverlap == Cardinality({p \in Procs : InCycle(p)}) <= 1

\* C7: no record with a non-finite squared error is ever appended.
NonFiniteMetricRejected ==
    \A i \in 1..Len(store) : IsFinite(store[i].temp_mse) /\ IsFinite(store[i].wind_mse)

\* C8: every cycle that starts eventually ends.
EveryCycleEnds ==
    \A p \in Procs : (outcome[p] = "running") ~> (outcome[p] # "running")

\* C9: a cycle whose ref.push raised ends as failed with nothing appended,
\* and the scheduler thread stays alive with the job scheduled.
StoreFailureSurvived ==
    \A p \in Procs :
        /\ pushCalls[p] > appended[p] => outcome[p] = "failed_store" /\ Scheduled(p)
        /\ outcome[p] = "failed_store" => appended[p] = 0

\* C9: the cycle after a store failure ran and appended
StoreFailureSurvivedWitness ==
    \E p \in Procs : prevOutcome[p] = "failed_store" /\ outcome[p] = "success"

\* C13: the record a cycle assembles at an instant holds, as temp_forecast and
\* wind_forecast, the entries of the two forecast arrays at one index: the
\* first index whose time entry is the hour the instant lies in.
ForecastAligned ==
    [][ \A p \in Procs :
          pc[p] = "FetchingCurrent" /\ pc'[p] = "Persisting" =>
            LET series == forecast_res[p].body.value.hourly
                bucket == ApiHour(clock \div HOUR)
                rec == pending'[p]
            IN  /\ rec.timestamp.hour = clock \div HOUR
                /\ rec.timestamp.minute = clock % HOUR
                /\ \E i \in 1..Len(series.time) :
                      /\ series.time[i] = bucket
                      /\ \A j \in 1..(i - 1) : series.time[j] # bucket
                      /\ rec.temp_forecast = series.temperature_2m[i]
                      /\ rec.wind_forecast = series.wind_speed_10m[i] ]_vars

\* C13: a record sampled after the top of the second hour holds the second
\* entries of the forecast arrays
ForecastAlignedWitness ==
    \E i \in 1..Len(store) :
        /\ store[i].timestamp.hour = FirstHour + 1
        /\ store[i].timestamp.minute > 0
        /\ store[i].temp_forecast = ForecastGood.hourly.temperature_2m[2]
        /\ store[i].wind_forecast = ForecastGood.hourly.wind_speed_10m[2]

(***************************************************************************)
(* Properties of the dashboard (ReadSpec).                                  *)
(***************************************************************************)
\* the collection the latest run was served from holds a record that lacks
\* a required field
ServedIncomplete ==
    \E i \in 1..Len(cache.value.rows) : ~(required_cols \subseteq DOMAIN cache.value.rows[i])

\* C6: when a record of the collection lacks a required field, the run gets
\* an empty frame and an error is reported.
IncompleteFailsClosed ==
    runs > 0 /\ ServedIncomplete => df = <<>> /\ reported

\* C10 as stated: two runs less than TTL apart, with no cache clearing in
\* between, get the same frame.
RunsWithinTtlAgree ==
    runs >= 2 /\ ~lastRun.cleared /\ lastRun.nearRun => lastRun.same

\* C10 amended: a run made less than TTL after the store read that served the
\* run before it, with no cache clearing in between, gets the same frame.
RunsOnOneEntryAgree ==
    runs >= 2 /\ ~lastRun.cleared /\ lastRun.nearRead => lastRun.same

\* C10: two such runs with a record appended between them
RunsOnOneEntryAgreeWitness ==
    runs >= 2 /\ ~lastRun.cleared /\ lastRun.nearRead /\ lastRun.grew /\ lastRun.same

\* C11: the frame a run gets was read from the store less than TTL before the
\* run; a run after st.cache_data.clear(), and a run made TTL or more after
\* the store read that served the run before it, read the store themselves.
ReadsAreFresh ==
    runs > 0 =>
        /\ lastRun.at - cache.at < TTL
        /\ lastRun.cleared \/ (runs >= 2 /\ ~lastRun.nearRead) => cache.at = lastRun.at

\* C11: a run that found the entry expired and read the store again
ReadsAreFreshWitness ==
    runs >= 2 /\ ~lastRun.cleared /\ ~lastRun.nearRead /\ cache.at = lastRun.at

\* mse is the square of actual - forecast, and of forecast - actual; with a
\* non-finite operand it is not a finite number
IsSquaredError(mse, actual, forecast) ==
    IF actual.tag = "num" /\ forecast.tag = "num"
    THEN /\ mse = Num((actual.val - forecast.val) * (actual.val - forecast.val))
         /\ mse = Num((forecast.val - actual.val) * (forecast.val - actual.val))
    ELSE mse.tag \in {"nan", "inf"}

\* C14: in every record of the collection that has the six numeric fields,
\* temp_mse and wind_mse are the squares of actual - forecast, whichever the
\* sign of the difference; and every row of the frame a run gets carries, as
\* Temp MSE and Wind MSE, the two values of the record it was read from.
StoredErrorsSquared ==
    /\ \A i \in 1..Len(store) :
          numeric_fields \subseteq DOMAIN store[i] =>
            /\ IsSquaredError(store[i].temp_mse, store[i].temp_actual, store[i].temp_forecast)
            /\ IsSquaredError(store[i].wind_mse, store[i].wind_actual, store[i].wind_forecast)
    /\ \A j \in 1..Len(df) :
          \E i \in 1..Len(cache.value.rows) :
            LET r == cache.value.rows[i] IN
            /\ df[j].timestamp = ParseTimestamp(Cell(r, "timestamp"))
            /\ df[j]["Temp MSE"] = Cell(r, "temp_mse")
            /\ df[j]["Wind MSE"] = Cell(r, "wind_mse")

\* C14: a run got a frame with every record of the collection, one of them
\* sampled when the actual temperature was below the forecast
StoredErrorsSquaredWitness ==
    /\ Len(df) = Len(store)
    /\ cache.value.rows = store
    /\ \E i \in 1..Len(store) :
          /\ store[i].temp_actual.tag = "num"
          /\ store[i].temp_forecast.tag = "num"
          /\ store[i].temp_actual.val < store[i].temp_forecast.val

\* the row of the frame holds the instant and the six numbers of record r
RowOf(row, r) ==
    /\ row.timestamp = [tag |-> "time", val |-> r.timestamp.hour * HOUR + r.timestamp.minute]
    /\ row["Forecast Temp (C)"] = r.temp_forecast
    /\ row["Actual Temp (C)"] = r.temp_actual
    /\ row["Forecast Wind (km/h)"] = r.wind_forecast
    /\ row["Actual Wind (km/h)"] = r.wind_actual
    /\ row["Temp MSE"] = r.temp_mse
    /\ row["Wind MSE"] = r.wind_mse

\* the frame holds the records of rows, each once, in some order
SameRecords(frame, rows) ==
    /\ Len(frame) = Len(rows)
    /\ \E perm \in Permutations(1..Len(rows)) :
          \A i \in 1..Len(rows) : RowOf(frame[i], rows[perm[i]])

\* C15: a run that the cache does not serve and whose store read works, over
\* a collection of N complete records, gets a frame of N rows: one row for
\* each record, with the six numbers of the record.
ReadReturnsAllRecords ==
    [][ /\ runs' = runs + 1
        /\ ~lastRun'.hit
        /\ ~cache'.failed
        /\ \A i \in 1..Len(store) : Complete(store[i])
        => SameRecords(df', store) ]_vars

\* C15: such a run over three records, one of them appended by a cycle
ReadReturnsAllRecordsWitness ==
    /\ runs > 0 /\ ~lastRun.hit /\ ~cache.failed
    /\ cycles > 0
    /\ Len(store) = 3 /\ lastRun.len = 3
    /\ \A i \in 1..Len(store) : Complete(store[i])
    /\ Len(df) = 3

\* C16: in the frame a run gets, every row has a timestamp and no row comes
\* before a row with a later timestamp.
SeriesDescending ==
    \A j \in 1..(Len(df) - 1) :
        /\ df[j].timestamp.tag = "time"
        /\ df[j + 1].timestamp.tag = "time"
        /\ df[j].timestamp.val >= df[j + 1].timestamp.val

\* the collection the latest run was served from holds a record whose
\* timestamp is not a string in the storage format
ServedUnparsable ==
    \E i \in 1..Len(cache.value.rows) :
        LET r == cache.value.rows[i] IN
        /\ "timestamp" \in DOMAIN r
        /\ ~(r.timestamp.tag = "str" /\ r.timestamp.sep = " ")

\* C17: when a record of the collection has a timestamp that is not in the
\* storage format, the run gets an empty frame and an error is reported.
UnparsableFailsClosed ==
    runs > 0 /\ ServedUnparsable => df = <<>> /\ reported

\* C18: the cache never serves a run with the None of a store read that
\* raised.
FailedReadNotServed ==
    runs > 0 /\ lastRun.hit => ~cache.failed

(***************************************************************************)
(* Properties of the collection under writes and reads (StoreSpec).         *)
(***************************************************************************)
\* C12: every step leaves the records already in the collection as they are
\* and in place, and adds at most one record after them; only a sampling
\* cycle adds one, and every step of the read path (a script run, the
\* Refresh Data button, the connection test: the steps that count a run,
\* fill or clear the cache, or show a frame or a test result) leaves the
\* collection unchanged.
StoreAppendOnly ==
    [][ /\ Len(store') \in {Len(store), Len(store) + 1}
        /\ SubSeq(store', 1, Len(store)) = store
        /\ store' # store => cycles' = cycles + 1
        /\ dashboard' # dashboard \/ firebase' # firebase => store' = store ]_vars

\* C12: the connection test ran and found the two records the collection
\* started with and the one a sampling cycle added
StoreAppendOnlyWitness ==
    /\ tested = "connected"
    /\ cycles > 0
    /\ Len(store) = 3
    /\ SubSeq(store, 1, 2) = <<Older, Newer>>

(***************************************************************************)
(* Properties of the start of the dashboard script (StartSpec).             *)
(***************************************************************************)
\* C19: whenever firebase_admin holds an app after a call of init_firebase,
\* the call returned True, and a run stops at line 235 only when no app is
\* initialized.
InitTrueWhenInitialized ==
    /\ initialized # NoEntry /\ apps => initialized = "True"
    /\ stopped => ~apps

====
